---- MODULE Spec2Model ----
(***************************************************************************)
(* The Door state machine of part2 (Door.h) driven by the generic engine   *)
(* (fsm/StateMachine.h, fsm/actions/*.h).  One handle() call is unfolded   *)
(* into the steps the C++ performs in sequence: the static_assert and the  *)
(* state's handler, then the execution of the returned action; a           *)
(* TransitionTo is unfolded into leave / transitionTo / enter.             *)
(***************************************************************************)
EXTENDS Integers, Sequences, FiniteSets, TLC

\* ------------------------------------------------------------------ bounds
\* Keys are uint32_t in the source; only assignment and equality are used on
\* them, so a small range shows every case (equal / different keys).
MaxKey == 2
\* Cap of the counter of consecutive handle calls with one and the same event.
MaxRepeat == 3
\* StaticString<N> is taken for N - 1 = 0..MaxLength, changeLength<TargetLen>
\* for TargetLen = 0..MaxTargetLen, and char for the values 0..MaxChar (0 is
\* '\0'): shorter, equal and longer targets, empty strings, '\0' as fill and
\* '\0' inside a string all occur.
MaxLength == 3
MaxTargetLen == 3
MaxChar == 2

Keys == 0..MaxKey

\* ------------------------------------------------------ the machine's state
VARIABLES
    events,        \* the declared event tuple (template argument Events<...>)
    userHooks,     \* which hooks the states passed to the engine declare
    states,        \* std::tuple<_States...> states: each state's data
    currentState,  \* std::variant<_States*...>: the state type pointed to
    pc,            \* position inside handle(): idle / execute / transitionTo / enter
    event,         \* the argument of the handle() call in progress (or the last one)
    statePtr,      \* the pointer std::visit passed to passEventToState
    action,        \* the action whose execute() runs next
    returned,      \* the action statePtr->handle(event) returned
    pre,           \* currentState and states when handle() was called
    trace,         \* the steps of TransitionTo::execute taken by this call
    outcome,       \* none / rejected / running / returned
    streak,        \* consecutive handle() calls with one and the same event
    resolved,      \* the last answer of ResolveAction: state, event, action type
    lockedBy,      \* the event whose handling last moved the tracker to LockedState
    chars,         \* StaticString<N>::chars of the string changeLength is called on
    TargetLen,     \* the template argument of changeLength<TargetLen>
    fill,          \* the argument of changeLength(char fill)
    res            \* the chars of the StaticString changeLength returned

\* The variables of the StaticString utilities; the machine never touches them.
stringVars == <<chars, TargetLen, fill, res>>

vars == <<events, userHooks, states, currentState, pc, event, statePtr, action,
          returned, pre, trace, outcome, streak, resolved, lockedBy, stringVars>>

\* ------------------------------------------------------- the Door's schema
\* States<ClosedState, OpenState, LockedState>, in declaration order.
StateTypes == <<"ClosedState", "OpenState", "LockedState">>

\* Events<CloseEvent, OpenEvent, LockEvent, UnlockEvent> of Door.h.
DoorEvents == <<"CloseEvent", "OpenEvent", "LockEvent", "UnlockEvent">>

\* The same Door declared without LockEvent (an event set that omits a type
\* ClosedState's On<LockEvent, ...> refers to).
DoorEventsNoLock == <<"CloseEvent", "OpenEvent", "UnlockEvent">>

\* The event tuples a StateMachine<States<...>, Events<...>> is instantiated with.
Schemas == {DoorEvents, DoorEventsNoLock}

\* Event values a caller can pass to handle(): the four event structs and a
\* plain int (door.handle(123)).  arg is LockEvent::newKey / UnlockEvent::key /
\* the int; OpenEvent and CloseEvent are empty structs (arg = 0).
OpenEvent == [type |-> "OpenEvent", arg |-> 0]
CloseEvent == [type |-> "CloseEvent", arg |-> 0]
LockEvent(newKey) == [type |-> "LockEvent", arg |-> newKey]
UnlockEvent(key) == [type |-> "UnlockEvent", arg |-> key]
IntEvent(n) == [type |-> "int", arg |-> n]

EventValues ==
    {OpenEvent, CloseEvent}
        \cup {LockEvent(k) : k \in Keys}
        \cup {UnlockEvent(k) : k \in Keys}
        \cup {IntEvent(k) : k \in Keys}

\* details::has_type<T, std::tuple<Us...>> : or_<std::is_same<T, Us>...>
has_type(T, Tuple) == \E i \in DOMAIN Tuple : Tuple[i] = T

\* ------------------------------------------------------------- the actions
\* Actions are empty structs: a value is its type.
Nothing == [kind |-> "Nothing"]
TransitionTo(TargetState) == [kind |-> "TransitionTo", TargetState |-> TargetState]
\* OneOf<Actions...>{arg}: std::variant<Actions...> options holding arg.
OneOf(Actions, arg) == [kind |-> "OneOf", Actions |-> Actions, options |-> arg]
\* Maybe<Action> : OneOf<Action, Nothing>, with OneOf's constructors.
Maybe(Action, arg) == OneOf(<<Action, Nothing>>, arg)

\* ---------------------------------------------------- handler composition
\* The value for "this handler has no overload for the event type".
NoHandle == [kind |-> "NoHandle"]

\* ByDefault<Action>::handle(const Event&) is a template: any event type.
ByDefault(Action, E) == Action

\* On::handle as a template taking any event type.
OnAnyEvent(Event, Action, E) == Action

\* On<Event, Action>::handle(const Event&): that event type only.
On(Event, Action, E) == IF E = Event THEN Action ELSE NoHandle

\* Will<Default, On<E1,A1>, ...>: an On entry whose event type is exactly E
\* wins over the default (the first such entry; the entries of one Will name
\* distinct events).  ons is the sequence of <<Event, Action>> pairs.
Will(Default, ons, E) ==
    LET hits == {i \in DOMAIN ons : On(ons[i][1], ons[i][2], E) # NoHandle}
    IN  IF hits = {}
        THEN ByDefault(Default, E)
        ELSE LET first == CHOOSE i \in hits : \A j \in hits : i <= j
             IN  On(ons[first][1], ons[first][2], E)

\* ClosedState : Will<ByDefault<Nothing>, On<LockEvent, TransitionTo<LockedState>>,
\*                    On<OpenEvent, TransitionTo<OpenState>>>
ClosedStateOns ==
    << <<"LockEvent", TransitionTo("LockedState")>>,
       <<"OpenEvent", TransitionTo("OpenState")>> >>

ClosedStateHandle(self, e) == Will(Nothing, ClosedStateOns, e.type)

\* An OpenState that can be locked while the door is open.
OpenStateOnsLock ==
    << <<"CloseEvent", TransitionTo("ClosedState")>>,
       <<"LockEvent", TransitionTo("LockedState")>> >>

\* OpenState : Will<ByDefault<Nothing>, On<CloseEvent, TransitionTo<ClosedState>>>
OpenStateOns == << <<"CloseEvent", TransitionTo("ClosedState")>> >>

OpenStateHandle(self, e) == Will(Nothing, OpenStateOns, e.type)

\* The event types the states' On<E, ...> overrides name.
OverrideEvents ==
    {ClosedStateOns[i][1] : i \in DOMAIN ClosedStateOns}
        \cup {OpenStateOns[i][1] : i \in DOMAIN OpenStateOns}

\* handle(const UnlockEvent&) without the comparison of the keys.
LockedStateHandleNoCheck(self, e) ==
    IF e.type = "UnlockEvent"
    THEN Maybe(TransitionTo("ClosedState"), TransitionTo("ClosedState"))
    ELSE ByDefault(Nothing, e.type)

\* A LockedState that takes a LockEvent as a request to lock again with the
\* new key.
LockedStateHandleRelock(self, e) ==
    CASE e.type = "UnlockEvent" ->
            IF e.arg = self.key
            THEN Maybe(TransitionTo("ClosedState"), TransitionTo("ClosedState"))
            ELSE Maybe(TransitionTo("ClosedState"), Nothing)
      [] e.type = "LockEvent" -> TransitionTo("LockedState")
      [] OTHER -> ByDefault(Nothing, e.type)

\* LockedState : ByDefault<Nothing>, using ByDefault::handle, plus
\* Maybe<TransitionTo<ClosedState>> handle(const UnlockEvent& e).
LockedStateHandle(self, e) ==
    IF e.type = "UnlockEvent"
    THEN IF e.arg = self.key
         THEN Maybe(TransitionTo("ClosedState"), TransitionTo("ClosedState"))
         ELSE Maybe(TransitionTo("ClosedState"), Nothing)
    ELSE ByDefault(Nothing, e.type)

\* The type of an action value: a OneOf without what its variant holds.
ActionTypeOf(a) ==
    IF a.kind = "OneOf" THEN [kind |-> "OneOf", Actions |-> a.Actions] ELSE a

\* The return type of the handle overload State has for event type E.
HandleReturnType(State, E) ==
    CASE State = "ClosedState" -> Will(Nothing, ClosedStateOns, E)
      [] State = "OpenState" -> Will(Nothing, OpenStateOns, E)
      [] State = "LockedState" ->
            IF E = "UnlockEvent"
            THEN [kind |-> "OneOf", Actions |-> <<TransitionTo("ClosedState"), Nothing>>]
            ELSE ByDefault(Nothing, E)

\* A resolution that looks at the On entries and the default only, not at a
\* handle overload the state declares itself.
ResolveActionOnsOnly(State, E) ==
    CASE State = "ClosedState" -> Will(Nothing, ClosedStateOns, E)
      [] State = "OpenState" -> Will(Nothing, OpenStateOns, E)
      [] State = "LockedState" -> ByDefault(Nothing, E)

\* ResolveAction{}(Types<State, Event>):
\* decltype(std::declval<State>().handle(std::declval<Event>())).
ResolveAction(State, E) == HandleReturnType(State, E)

\* statePtr->handle(event) for the state the visited pointer refers to.
StateHandle(State, self, e) ==
    CASE State = "ClosedState" -> ClosedStateHandle(self, e)
      [] State = "OpenState" -> OpenStateHandle(self, e)
      [] State = "LockedState" -> LockedStateHandle(self, e)

\* ------------------------------------------------------------------ hooks
\* The states the engine is instantiated with declare their hooks freely.
\* userHooks = "Door": the hooks of Door.h.  userHooks = "Throwing": the Door's
\* states where, besides, every state declares onLeave(const Event&) for every
\* event type (it touches no data) and a hook may end by throwing instead of
\* returning; this instantiation takes the paths of leave() and enter() that
\* the Door of Door.h never takes.
\*
\* Which onLeave / onEnter overloads exist (what decltype(state.onLeave(event))
\* and decltype(state.onEnter(event)) are well-formed for).  No state of
\* Door.h declares onLeave.
HasOnLeave(State, E) == userHooks = "Throwing"

\* onEnter declared as a template over the event type in both states.
HasOnEnterAnyEvent(State, E) == State \in {"ClosedState", "LockedState"}

HasOnEnter(State, E) ==
    \/ State = "ClosedState" /\ E = "CloseEvent"
    \/ State = "LockedState" /\ E = "LockEvent"

\* The state's data after its onEnter(event).
\* ClosedState::onEnter(const CloseEvent&) changes nothing and returns a
\* Maybe<TransitionTo<LockedState>>; LockedState::onEnter(const LockEvent& e)
\* does key = e.newKey.
ClosedStateOnEnter(self, e) == self

\* onEnter(const LockEvent&) without the assignment.
LockedStateOnEnterKeep(self, e) == self

LockedStateOnEnter(self, e) == [self EXCEPT !.key = e.arg]

\* What the onEnter hooks return: ClosedState::onEnter(const CloseEvent&) a
\* Maybe<TransitionTo<LockedState>> that holds the transition when autoLock is
\* set, LockedState::onEnter(const LockEvent&) a Nothing.
ClosedStateOnEnterResult(self, e) ==
    IF self.autoLock
    THEN Maybe(TransitionTo("LockedState"), TransitionTo("LockedState"))
    ELSE Maybe(TransitionTo("LockedState"), Nothing)

LockedStateOnEnterResult(self, e) == Nothing

OnEnterResult(State, self, e) ==
    CASE State = "ClosedState" -> ClosedStateOnEnterResult(self, e)
      [] State = "LockedState" -> LockedStateOnEnterResult(self, e)
      [] OTHER -> Nothing

OnEnter(State, self, e) ==
    CASE State = "ClosedState" -> ClosedStateOnEnter(self, e)
      [] State = "LockedState" -> LockedStateOnEnter(self, e)
      [] OTHER -> self

\* --------------------------------------------------- construction
\* The part of the machine a caller can observe: active state and state data.
Machine == [currentState |-> currentState, states |-> states]

\* std::tuple<_States...> built from ClosedState{autoLock}, OpenState{},
\* LockedState{key}.
StatesTuple(autoLock, key) ==
    [ClosedState |-> [autoLock |-> autoLock],
     OpenState |-> <<>>,
     LockedState |-> [key |-> key]]

\* A tracker initialised to the last state of the tuple.
InitialStateLast == StateTypes[Len(StateTypes)]

\* currentState{ &std::get<0>(states) }
InitialState == StateTypes[1]

\* Before ResolveAction was asked anything.
NoResolved == [state |-> "none", event |-> "none", action |-> Nothing]

NoStreak == [event |-> OpenEvent, n |-> 0, base |-> <<>>, hooked |-> FALSE]

\* No handle() call has moved the tracker to LockedState yet.
NeverLocked == [type |-> "none", arg |-> 0]

\* Door door{ClosedState{autoLock}, OpenState{}, LockedState{key}};
InitWith(hooks) ==
    /\ events \in Schemas
    /\ userHooks = hooks
    /\ \E autoLock \in BOOLEAN, key \in Keys : states = StatesTuple(autoLock, key)
    /\ currentState = InitialState
    /\ pc = "idle"
    /\ event = OpenEvent
    /\ statePtr = InitialState
    /\ action = Nothing
    /\ returned = Nothing
    /\ pre = [currentState |-> InitialState, states |-> states]
    /\ trace = <<>>
    /\ outcome = "none"
    /\ streak = NoStreak
    /\ resolved = NoResolved
    /\ lockedBy = NeverLocked

\* No StaticString is in use: the empty string "" and no changeLength call.
NoString ==
    /\ chars = <<0>>
    /\ TargetLen = 0
    /\ fill = 0
    /\ res = <<>>

\* The Door of Door.h.
Init == InitWith("Door") /\ NoString

\* The Door's states with hooks that may throw.
InitThrow == InitWith("Throwing") /\ NoString

\* ------------------------------------------------------ the engine's steps
\* transitionTo that leaves the variant without a state to point to.
transitionToNull(State) == "nullptr"

\* StateMachine::transitionTo<State>(): currentState = &std::get<State>(states).
transitionTo(State) == State

\* handle() without its static_assert.
handleUnchecked(E) == TRUE

\* static_assert(details::has_type<Event, events>::value, "Unhandled event type")
handleStaticAssert(E) == has_type(E, events)

\* One more call in the run of calls with the same event, or a new run.
NextStreak(e) ==
    IF streak.n > 0 /\ streak.event = e
    THEN [streak EXCEPT !.n = IF streak.n < MaxRepeat THEN streak.n + 1 ELSE MaxRepeat]
    ELSE [event |-> e, n |-> 1, base |-> Machine, hooked |-> FALSE]

\* handle(event) with an event type the static_assert refuses: the call does
\* not build, so nothing of it runs.
HandleRejected(e) ==
    /\ pc = "idle"
    /\ ~handleStaticAssert(e.type)
    /\ event' = e
    /\ outcome' = "rejected"
    /\ streak' = NoStreak
    /\ UNCHANGED <<stringVars, lockedBy, events, userHooks, resolved, states, currentState, pc, statePtr, action, returned,
                   pre, trace>>

\* A handle() that takes the next event while a call is still in progress.
HandleReentrant(e) ==
    /\ handleStaticAssert(e.type)
    /\ event' = e
    /\ statePtr' = currentState
    /\ action' = StateHandle(currentState, states[currentState], e)
    /\ returned' = action'
    /\ pre' = Machine
    /\ trace' = <<>>
    /\ outcome' = "running"
    /\ streak' = NextStreak(e)
    /\ pc' = "execute"
    /\ UNCHANGED <<stringVars, lockedBy, events, userHooks, resolved, states, currentState>>

\* handle(event) -> handleBy(event, *this) -> std::visit(passEventToState,
\* currentState) up to: auto action = statePtr->handle(event);
Handle(e) ==
    /\ pc = "idle"
    /\ handleStaticAssert(e.type)
    /\ StateHandle(currentState, states[currentState], e) # NoHandle
    /\ event' = e
    /\ statePtr' = currentState
    /\ action' = StateHandle(currentState, states[currentState], e)
    /\ returned' = action'
    /\ pre' = Machine
    /\ trace' = <<>>
    /\ outcome' = "running"
    /\ streak' = NextStreak(e)
    /\ pc' = "execute"
    /\ UNCHANGED <<stringVars, lockedBy, events, userHooks, resolved, states, currentState>>

\* A visit that always runs the first alternative of Actions...
OneOfVisitFirst(a) == a.Actions[1]

\* std::visit([...](auto& action){ action.execute(machine, state, event); },
\* options): the alternative the variant holds.
OneOfVisit(a) == a.options

\* OneOf::execute: delegates to the held alternative's execute.
OneOfExecute ==
    /\ pc = "execute"
    /\ action.kind = "OneOf"
    /\ action' = OneOfVisit(action)
    /\ UNCHANGED <<stringVars, lockedBy, events, userHooks, resolved, states, currentState, pc, event, statePtr, returned,
                   pre, trace, outcome, streak>>

\* A Nothing that puts the machine back to its first state.
NothingExecuteReset(m) == [m EXCEPT !.currentState = StateTypes[1]]

\* Nothing::execute(Machine&, State&, const Event&) { }
NothingExecuteBody(m) == m

NothingExecute ==
    /\ pc = "execute"
    /\ action.kind = "Nothing"
    /\ currentState' = NothingExecuteBody(Machine).currentState
    /\ states' = NothingExecuteBody(Machine).states
    /\ pc' = "idle"
    /\ outcome' = "returned"
    /\ UNCHANGED <<stringVars, lockedBy, events, userHooks, resolved, event, statePtr, action, returned, pre, trace, streak>>

\* One entry of trace: the step, the state it was applied to, the event passed,
\* whether the state's hook existed and so was called, and the active state
\* at that moment.
Step(step, State, e, hook) ==
    [step |-> step, state |-> State, event |-> e, hook |-> hook,
     tracker |-> currentState]

\* TransitionTo::leave(prevState, event): state.onLeave(event) when that is
\* well-formed, the empty leave(...) otherwise.  No Door state has an onLeave,
\* so the state's data stays as it is.
leave(sts, prevState, e) == sts

\* An enter() on a state that the transition has built anew
\* (ClosedState{}, LockedState{0}) instead of the instance the tuple holds.
enterReconstructed(sts, newState, e) ==
    LET fresh == [ClosedState |-> [autoLock |-> FALSE],
                  OpenState |-> <<>>,
                  LockedState |-> [key |-> 0]]
        anew == [sts EXCEPT ![newState] = fresh[newState]]
    IN  IF HasOnEnter(newState, e.type)
        THEN [anew EXCEPT ![newState] = OnEnter(newState, anew[newState], e)]
        ELSE anew

\* TransitionTo::enter(newState, event): state.onEnter(event) when that is
\* well-formed, the empty enter(...) otherwise; the hook's return value is the
\* value of enter(), which execute() drops.
enter(sts, newState, e) ==
    IF HasOnEnter(newState, e.type)
    THEN [sts EXCEPT ![newState] = OnEnter(newState, sts[newState], e)]
    ELSE sts

\* execute() with its first two statements swapped: the tracker is moved, then
\* leave(prevState, event) runs.
TransitionToMoveThenLeave ==
    /\ pc = "execute"
    /\ action.kind = "TransitionTo"
    /\ currentState' = transitionTo(action.TargetState)
    /\ lockedBy' = IF action.TargetState = "LockedState" THEN event ELSE lockedBy
    /\ states' = leave(states, statePtr, event)
    /\ trace' = Append(trace, [step |-> "leave", state |-> statePtr, event |-> event,
                               hook |-> HasOnLeave(statePtr, event.type),
                               tracker |-> currentState'])
    /\ streak' = [streak EXCEPT !.hooked = @ \/ HasOnLeave(statePtr, event.type)]
    /\ pc' = "transitionTo"
    /\ UNCHANGED <<stringVars, events, userHooks, resolved, event, statePtr, action, returned, pre, outcome>>

\* TransitionTo::execute, first statement: leave(prevState, event);
TransitionToLeave ==
    /\ pc = "execute"
    /\ action.kind = "TransitionTo"
    /\ states' = leave(states, statePtr, event)
    /\ trace' = Append(trace, Step("leave", statePtr, event,
                                   HasOnLeave(statePtr, event.type)))
    /\ streak' = [streak EXCEPT !.hooked = @ \/ HasOnLeave(statePtr, event.type)]
    /\ pc' = "transitionTo"
    /\ UNCHANGED <<stringVars, lockedBy, events, userHooks, resolved, currentState, event, statePtr, action, returned, pre,
                   outcome>>

\* second statement: TargetState& newState = machine.transitionTo<TargetState>();
TransitionToMove ==
    /\ pc = "transitionTo"
    /\ currentState' = transitionTo(action.TargetState)
    /\ lockedBy' = IF action.TargetState = "LockedState" THEN event ELSE lockedBy
    /\ trace' = Append(trace, Step("transitionTo", action.TargetState, event, FALSE))
    /\ pc' = "enter"
    /\ UNCHANGED <<stringVars, events, userHooks, resolved, states, event, statePtr, action, returned, pre,
                   outcome, streak>>

\* execute() that returns right after moving the tracker, without enter().
TransitionToReturnAfterMove ==
    /\ pc = "enter"
    /\ pc' = "idle"
    /\ outcome' = "returned"
    /\ UNCHANGED <<stringVars, lockedBy, events, userHooks, resolved, states, currentState, event, statePtr, action, returned,
                   pre, trace, streak>>

\* An execute() that runs the action onEnter returned: a transition held by
\* it moves the tracker once more.
TransitionToEnterRunsResult ==
    /\ pc = "enter"
    /\ states' = enter(states, action.TargetState, event)
    /\ LET T == action.TargetState
           result == IF HasOnEnter(T, event.type)
                     THEN OnEnterResult(T, states[T], event)
                     ELSE Nothing
           final == IF result.kind = "OneOf" THEN result.options ELSE result
           entered == Step("enter", T, event, HasOnEnter(T, event.type))
       IN  IF final.kind = "TransitionTo"
           THEN /\ currentState' = transitionTo(final.TargetState)
                /\ lockedBy' = IF final.TargetState = "LockedState"
                               THEN event ELSE lockedBy
                /\ trace' = trace \o <<entered,
                                        Step("transitionTo", final.TargetState,
                                             event, FALSE)>>
           ELSE /\ currentState' = currentState
                /\ lockedBy' = lockedBy
                /\ trace' = Append(trace, entered)
    /\ streak' = [streak EXCEPT !.hooked = @ \/ HasOnEnter(action.TargetState, event.type)]
    /\ pc' = "idle"
    /\ outcome' = "returned"
    /\ UNCHANGED <<stringVars, events, userHooks, resolved, event, statePtr, action, returned, pre>>

\* third statement: enter(newState, event); then execute() and handle() return.
TransitionToEnter ==
    /\ pc = "enter"
    /\ states' = enter(states, action.TargetState, event)
    /\ trace' = Append(trace, Step("enter", action.TargetState, event,
                                   HasOnEnter(action.TargetState, event.type)))
    /\ streak' = [streak EXCEPT !.hooked = @ \/ HasOnEnter(action.TargetState, event.type)]
    /\ pc' = "idle"
    /\ outcome' = "returned"
    /\ UNCHANGED <<stringVars, lockedBy, events, userHooks, resolved, currentState, event, statePtr, action, returned, pre>>

\* GenerateRow: auto action = ResolveAction{}(Types<Types<State, Event>>{}); a
\* constant expression over types, asked for a state and an event of
\* Types<OpenEvent, CloseEvent, LockEvent, UnlockEvent>.
Resolve(State, E) ==
    /\ resolved' = [state |-> State, event |-> E, action |-> ResolveAction(State, E)]
    /\ UNCHANGED <<stringVars, lockedBy, events, userHooks, states, currentState, pc,
                   event, statePtr, action, returned, pre, trace, outcome, streak>>

Next ==
    \/ \E S \in {StateTypes[i] : i \in DOMAIN StateTypes},
          E \in {DoorEvents[i] : i \in DOMAIN DoorEvents} : Resolve(S, E)
    \/ \E e \in EventValues : HandleRejected(e)
    \/ \E e \in EventValues : Handle(e)
    \/ OneOfExecute
    \/ NothingExecute
    \/ TransitionToLeave
    \/ TransitionToMove
    \/ TransitionToEnter

Spec == Init /\ [][Next]_vars

\* ------------------------------------------------------- hooks that throw
\* An unwinding that puts the tracker and the data back as they were when
\* handle() was called.
UnwindRollback(m) == pre

\* An exception leaving a hook passes through TransitionTo::execute, the
\* visitor, std::visit, handleBy and handle: none of them has a try block or a
\* local with a destructor that touches the machine.
Unwind(m) == m

\* leave(prevState, event) where state.onLeave(event) throws: execute() ends
\* there and the exception reaches the caller of handle().
TransitionToLeaveThrows ==
    /\ pc = "execute"
    /\ action.kind = "TransitionTo"
    /\ userHooks = "Throwing"
    /\ HasOnLeave(statePtr, event.type)
    /\ currentState' = Unwind(Machine).currentState
    /\ states' = Unwind(Machine).states
    /\ trace' = Append(trace, Step("leave", statePtr, event, TRUE))
    /\ streak' = [streak EXCEPT !.hooked = TRUE]
    /\ pc' = "idle"
    /\ outcome' = "threw"
    /\ UNCHANGED <<stringVars, lockedBy, events, userHooks, resolved, event, statePtr, action, returned, pre>>

\* enter(newState, event) where state.onEnter(event) throws, before or after
\* the hook did its assignments.
TransitionToEnterThrows ==
    /\ pc = "enter"
    /\ userHooks = "Throwing"
    /\ HasOnEnter(action.TargetState, event.type)
    /\ \E sts \in {states, enter(states, action.TargetState, event)} :
           LET m == Unwind([currentState |-> currentState, states |-> sts])
           IN  currentState' = m.currentState /\ states' = m.states
    /\ trace' = Append(trace, Step("enter", action.TargetState, event, TRUE))
    /\ streak' = [streak EXCEPT !.hooked = TRUE]
    /\ pc' = "idle"
    /\ outcome' = "threw"
    /\ UNCHANGED <<stringVars, lockedBy, events, userHooks, resolved, event, statePtr, action, returned, pre>>

NextThrow ==
    \/ Next
    \/ TransitionToLeaveThrows
    \/ TransitionToEnterThrows

SpecThrow == InitThrow /\ [][NextThrow]_vars

\* ------------------------------------------- fsm/utils: StaticString, arrays
\* '\0'
NUL == 0

Chars == 0..MaxChar

\* std::array<T, N>: index 1..N here, 0..N-1 in the source.
Arrays(N) == [1..N -> Chars]

\* resize<NewSize>(arr, defaultValue):
\*   return {((Indexes < OldSize) ? arr[Indexes] : defaultValue)...};
\* over Indexes = 0..NewSize-1.
resize(NewSize, arr, defaultValue) ==
    [Indexes \in 1..NewSize |->
        IF Indexes - 1 < Len(arr) THEN arr[Indexes] ELSE defaultValue]

\* join(lhs, rhs): return {lhs[LeftIdx]..., rhs[RightIdx]...};
join(lhs, rhs) ==
    [i \in 1..(Len(lhs) + Len(rhs)) |->
        IF i <= Len(lhs) THEN lhs[i] ELSE rhs[i - Len(lhs)]]

\* areEqual(lhs, rhs) on two arrays of one size: ((lhs[Idx] == rhs[Idx]) && ...)
areEqual(lhs, rhs) == \A Idx \in 1..Len(lhs) : lhs[Idx] = rhs[Idx]

\* tests::testResize
testResize ==
    LET input == <<1, 2, 3>>
        expectedShorter == <<1, 2>>
        expectedLonger == <<1, 2, 3, 9>>
    IN  /\ areEqual(expectedShorter, resize(2, input, 9))
        /\ areEqual(expectedLonger, resize(4, input, 9))

\* The chars a StaticString<N> can hold, N >= 1: the constructors take any
\* char[N] or std::array<const char, N>, a string literal being the case
\* with '\0' last and nowhere else.
StaticStrings == UNION {Arrays(N) : N \in 1..(MaxLength + 1)}

\* constexpr std::array<const char, 1> stringEnd{'\0'};
stringEnd == <<NUL>>

\* StaticString<N>::length(): return N - 1;
length(s) == Len(s) - 1

\* A changeLength that resizes chars as they are, terminator included.
changeLengthKeepsEnd(s, L, c) ==
    join(resize(L, s, c), stringEnd)

\* StaticString<N>::changeLength<TargetLen>(fill):
\*   return join(resize<TargetLen>(resize<N-1>(chars, fill), fill), stringEnd);
changeLength(s, L, c) ==
    join(resize(L, resize(Len(s) - 1, s, c), c), stringEnd)

\* A StaticString, a target length and a fill character, changeLength not
\* called yet; the Door is constructed and left alone.
InitString ==
    /\ InitWith("Door")
    /\ chars \in StaticStrings
    /\ TargetLen \in 0..MaxTargetLen
    /\ fill \in Chars
    /\ res = <<>>

\* constexpr auto res = s.changeLength<TargetLen>(fill);
ChangeLength ==
    /\ res = <<>>
    /\ res' = changeLength(chars, TargetLen, fill)
    /\ UNCHANGED <<chars, TargetLen, fill, lockedBy, events, userHooks, states,
                   currentState, pc, event, statePtr, action, returned, pre,
                   trace, outcome, streak, resolved>>

NextString == ChangeLength

SpecString == InitString /\ [][NextString]_vars

\* ----------------------------------------------------------- the properties
\* A handle() call has returned normally (not the state before the first call,
\* not a rejected call).
Returned == pc = "idle" /\ outcome = "returned"

\* C1: at every step, also in the middle of a handle() call, the tracker
\* identifies exactly one state and that state is one of the declared ones.
C1_ExactlyOneDeclaredStateActive ==
    Cardinality({i \in DOMAIN StateTypes : StateTypes[i] = currentState}) = 1

\* Inside a transition, after the tracker moved and before onEnter has run.
C1_Witness ==
    pc = "enter" /\ currentState = "LockedState" /\ statePtr = "ClosedState"

\* The three steps of TransitionTo<T>::execute from state S with event e, each
\* with the active state at the moment it is taken.
ExpectedSteps(S, T, e) ==
    << [step |-> "leave", state |-> S, event |-> e,
        hook |-> HasOnLeave(S, e.type), tracker |-> S],
       [step |-> "transitionTo", state |-> T, event |-> e,
        hook |-> FALSE, tracker |-> S],
       [step |-> "enter", state |-> T, event |-> e,
        hook |-> HasOnEnter(T, e.type), tracker |-> T] >>

\* How many steps of TransitionTo::execute are done at each position.
StepsDone == CASE pc = "transitionTo" -> 1 [] pc = "enter" -> 2 [] OTHER -> 3

\* C2: a TransitionTo<T> executed from S with e does leave(S, e) with S still
\* active, then sets the tracker to T, then enter(T, e) with T active; each
\* once, the same e in both, and T is active when handle() returns.
C2_LeaveThenMoveThenEnter ==
    (pc \in {"transitionTo", "enter"} \/ (Returned /\ action.kind = "TransitionTo"))
        => /\ trace = SubSeq(ExpectedSteps(pre.currentState, action.TargetState, event),
                             1, StepsDone)
           /\ currentState = IF pc = "transitionTo"
                             THEN pre.currentState
                             ELSE action.TargetState

\* A finished transition whose onEnter hook exists and ran.
C2_Witness ==
    /\ Returned
    /\ action.kind = "TransitionTo"
    /\ Len(trace) = 3
    /\ trace[3].hook
    /\ currentState = "LockedState"

\* C3: the step that executes Nothing changes neither the active state nor any
\* state's data and calls no hook.
C3_NothingChangesNothing ==
    [][(pc = "execute" /\ action.kind = "Nothing")
          => /\ currentState' = currentState
             /\ states' = states
             /\ trace' = trace
             /\ streak'.hooked = streak.hooked]_vars

\* LockEvent handled while Open is active resolved to Nothing and returned.
C3_Witness ==
    /\ Returned
    /\ returned = Nothing
    /\ event.type = "LockEvent"
    /\ currentState = "OpenState"

\* The hooks a call has invoked, in order.
HooksCalled(t) ==
    LET called == SelectSeq(t, LAMBDA s : s.hook)
    IN  [i \in DOMAIN called |-> <<called[i].step, called[i].state, called[i].event>>]

\* The result of calling a.execute(machine, prevState, e) directly on machine m,
\* for the two plain actions: the machine afterwards and the hooks invoked.
ExecuteDirect(a, m, prevState, e) ==
    IF a.kind = "Nothing"
    THEN [machine |-> NothingExecuteBody(m), hooks |-> <<>>]
    ELSE LET left == leave(m.states, prevState, e)
             T == a.TargetState
         IN  [machine |-> [currentState |-> transitionTo(T),
                           states |-> enter(left, T, e)],
              hooks |-> (IF HasOnLeave(prevState, e.type)
                         THEN << <<"leave", prevState, e>> >> ELSE <<>>)
                        \o (IF HasOnEnter(T, e.type)
                            THEN << <<"enter", T, e>> >> ELSE <<>>)]

\* C4: a handle() call whose handler returned a OneOf / Maybe ends with the
\* machine and the hook calls that executing the held action directly gives:
\* Maybe{Nothing} as Nothing, Maybe{A} as A.
C4_OneOfIsTransparent ==
    (Returned /\ returned.kind = "OneOf")
        => [machine |-> Machine, hooks |-> HooksCalled(trace)]
               = ExecuteDirect(returned.options, pre, statePtr, event)

\* A Maybe constructed from the transition was executed.
C4_Witness ==
    /\ Returned
    /\ returned.kind = "OneOf"
    /\ returned.options.kind = "TransitionTo"
    /\ currentState = "ClosedState"

\* C5: the handler a state of the Door resolves an event type to: the On entry
\* for exactly that type, the default otherwise; OpenEvent while Open leaves
\* Open active.
C5_OverrideThenDefault ==
    outcome \in {"running", "returned"}
        => /\ statePtr = "ClosedState"
                => returned = CASE event.type = "LockEvent" -> TransitionTo("LockedState")
                                [] event.type = "OpenEvent" -> TransitionTo("OpenState")
                                [] OTHER -> Nothing
           /\ statePtr = "OpenState"
                => returned = IF event.type = "CloseEvent"
                              THEN TransitionTo("ClosedState")
                              ELSE Nothing
           /\ (Returned /\ statePtr = "OpenState" /\ event.type = "OpenEvent")
                => currentState = "OpenState"

\* OpenEvent was handled while Open was active.
C5_Witness ==
    /\ Returned
    /\ statePtr = "OpenState"
    /\ event = OpenEvent
    /\ returned = Nothing
    /\ currentState = "OpenState"

\* C6: LockEvent{k} handled while Closed is active ends with Locked active and
\* Locked's key equal to k, whatever the key was.
C6_LockStoresKey ==
    (Returned /\ pre.currentState = "ClosedState" /\ event.type = "LockEvent")
        => /\ currentState = "LockedState"
           /\ states.LockedState.key = event.arg

\* The lock replaced a different key.
C6_Witness ==
    /\ Returned
    /\ pre.currentState = "ClosedState"
    /\ event.type = "LockEvent"
    /\ pre.states.LockedState.key # event.arg
    /\ states.LockedState.key = event.arg

\* C7: UnlockEvent{k} handled while Locked is active ends in Closed exactly when
\* k is the stored key; otherwise the machine is as before, no step of a
\* transition and no hook has run, and the call returned normally.
C7_UnlockOnlyWithKey ==
    (pc = "idle" /\ event.type = "UnlockEvent" /\ outcome # "none"
     /\ pre.currentState = "LockedState")
        => /\ outcome = "returned"
           /\ currentState = "ClosedState" <=> event.arg = pre.states.LockedState.key
           /\ event.arg # pre.states.LockedState.key
                => (Machine = pre /\ trace = <<>> /\ ~streak.hooked)

\* An unlock with a wrong key was declined.
C7_Witness ==
    /\ Returned
    /\ event.type = "UnlockEvent"
    /\ pre.currentState = "LockedState"
    /\ event.arg # pre.states.LockedState.key
    /\ currentState = "LockedState"

\* The action finally executed for a returned action: OneOf's held alternative.
RECURSIVE FinalAction(_)
FinalAction(a) == IF a.kind = "OneOf" THEN FinalAction(a.options) ELSE a

\* Event e resolves to Nothing in machine m's active state.
ResolvesToNothing(m, e) ==
    FinalAction(StateHandle(m.currentState, m.states[m.currentState], e)) = Nothing

\* C8: after n >= 1 consecutive handle() calls with an event that resolved to
\* Nothing before the first of them, the machine is as before the first call
\* and none of the calls invoked a hook.
C8_NothingIsIdempotent ==
    (Returned /\ streak.n >= 1 /\ ResolvesToNothing(streak.base, streak.event))
        => (Machine = streak.base /\ ~streak.hooked)

\* The same declined unlock, repeated up to the cap.
C8_Witness ==
    /\ Returned
    /\ streak.n = MaxRepeat
    /\ streak.event.type = "UnlockEvent"
    /\ currentState = "LockedState"

\* C9: a handle() call with an event type outside the declared tuple is
\* rejected before dispatch: no handler is called, no action runs, and the
\* active state and the states' data stay as they are.
C9_UndeclaredEventRejected ==
    [][(pc = "idle" /\ ~has_type(event'.type, events))
          => /\ outcome' = "rejected"
             /\ pc' = "idle"
             /\ currentState' = currentState
             /\ states' = states
             /\ returned' = returned
             /\ action' = action
             /\ trace' = trace]_vars

\* handle(int) was rejected on a door that is Locked.
C9_Witness ==
    /\ outcome = "rejected"
    /\ event.type = "int"
    /\ events = DoorEvents
    /\ currentState = "LockedState"

\* The declared event tuple omits a type some state's override names.
OmitsOverrideEvent == \E E \in OverrideEvents : ~has_type(E, events)

\* C10 as stated: declaring a machine without an event type an override names
\* fails before any handle() call is possible, so no call is ever dispatched
\* on such a machine.
C10_AsStated == OmitsOverrideEvent => outcome \notin {"running", "returned"}

\* C10 amended: such a machine is constructed and dispatches the declared
\* events; the omission shows per call: exactly the calls with an undeclared
\* event type are rejected.
C10_OmissionRejectedPerCall ==
    OmitsOverrideEvent
        => /\ outcome \in {"running", "returned"} => has_type(event.type, events)
           /\ outcome = "rejected" => ~has_type(event.type, events)
           /\ pc = "idle"
                => \A e \in EventValues :
                       has_type(e.type, events) => ENABLED Handle(e)

\* The door declared without LockEvent was opened.
C10_Witness ==
    /\ OmitsOverrideEvent
    /\ Returned
    /\ event = OpenEvent
    /\ currentState = "OpenState"

\* C11: right after construction the first declared state is active and no
\* hook has been invoked.
C11_FirstStateActiveAfterConstruction ==
    outcome = "none"
        => /\ currentState = StateTypes[1]
           /\ currentState = "ClosedState"
           /\ pc = "idle"
           /\ trace = <<>>
           /\ ~streak.hooked

\* A door just constructed from ClosedState{true}, OpenState{}, LockedState{k}.
C11_Witness ==
    /\ outcome = "none"
    /\ states.ClosedState.autoLock
    /\ states.LockedState.key > 0
    /\ currentState = "ClosedState"

\* C12: the tracker changes only in the transitionTo step of a TransitionTo
\* being executed; the handler call, Nothing, and the leave / enter steps with
\* their hooks leave it alone.
C12_TrackerChangesOnlyInTransitionTo ==
    [][currentState' # currentState
          => (pc = "transitionTo" /\ action.kind = "TransitionTo"
              /\ currentState' = action.TargetState)]_vars

\* The tracker has just been moved by a transition.
C12_Witness ==
    /\ pc = "enter"
    /\ currentState # pre.currentState
    /\ currentState = action.TargetState

\* C13 as stated: within one execution of TransitionTo nothing follows the
\* step that moves the tracker.
C13_AsStated ==
    \A i \in DOMAIN trace : trace[i].step = "transitionTo" => i = Len(trace)

\* C13 amended: the tracker is moved in the second of three steps; exactly one
\* step follows it, enter(newState, event) on the new active state, and the
\* call returns only after that step.
C13_EnterFollowsTrackerMove ==
    /\ \A i \in DOMAIN trace :
           trace[i].step = "transitionTo"
               => /\ i = 2
                  /\ Len(trace) <= 3
                  /\ Len(trace) = 3
                       => /\ trace[3].step = "enter"
                          /\ trace[3].state = trace[2].state
                          /\ trace[3].tracker = trace[2].state
    /\ (Returned /\ action.kind = "TransitionTo")
           => (Len(trace) = 3 /\ trace[2].step = "transitionTo")

\* Locked.onEnter(LockEvent) ran after the tracker had been moved to Locked.
C13_Witness ==
    /\ Returned
    /\ Len(trace) = 3
    /\ trace[2].step = "transitionTo"
    /\ trace[3].step = "enter"
    /\ trace[3].hook
    /\ trace[3].state = "LockedState"

\* C14: a hook that fails ends the call with the failure at the caller and
\* nothing is rolled back: after a failing onLeave the previous state is still
\* active and the target was never entered; after a failing onEnter the target
\* is active; the failing hook is the last step taken.
C14_HookFailureNoRollback ==
    outcome = "threw"
        => /\ pc = "idle"
           /\ trace # <<>>
           /\ trace[Len(trace)].hook
           /\ \A i \in 1..(Len(trace) - 1) :
                  trace[i] = ExpectedSteps(pre.currentState, action.TargetState, event)[i]
           /\ trace[Len(trace)].step = "leave"
                => /\ Len(trace) = 1
                   /\ currentState = pre.currentState
                   /\ states = pre.states
           /\ trace[Len(trace)].step = "enter"
                => /\ Len(trace) = 3
                   /\ currentState = action.TargetState
                   /\ currentState # pre.currentState
           /\ trace[Len(trace)].step \in {"leave", "enter"}

\* Locked.onEnter(LockEvent) threw: Locked is active with its old key.
C14_Witness ==
    /\ outcome = "threw"
    /\ trace[Len(trace)].step = "enter"
    /\ currentState = "LockedState"
    /\ pre.currentState = "ClosedState"
    /\ states.LockedState.key # event.arg

\* onLeave threw while leaving Open: Open is still active.
C14_WitnessLeave ==
    /\ outcome = "threw"
    /\ trace[Len(trace)].step = "leave"
    /\ currentState = "OpenState"

\* C15: the states' data outlive transitions: Locked's key changes only in the
\* step that enters Locked with a LockEvent (to that event's key), and
\* Closed's autoLock and Open never change, whatever is left or entered.
C15_StateDataPersists ==
    [][/\ states'.ClosedState = states.ClosedState
       /\ states'.OpenState = states.OpenState
       /\ states'.LockedState # states.LockedState
            => /\ pc = "enter"
               /\ action.TargetState = "LockedState"
               /\ event.type = "LockEvent"
               /\ states'.LockedState.key = event.arg]_vars

\* Locked was left by an unlock and Closed entered again: the key that was
\* stored and Closed's autoLock are still there.
C15_Witness ==
    /\ Returned
    /\ pre.currentState = "LockedState"
    /\ currentState = "ClosedState"
    /\ states.ClosedState.autoLock
    /\ states.LockedState.key = event.arg
    /\ states.LockedState.key > 0

\* What one handle(e) call makes of machine m, as a function of m and e alone.
HandleResult(m, e) ==
    ExecuteDirect(FinalAction(StateHandle(m.currentState, m.states[m.currentState], e)),
                  m, m.currentState, e).machine

\* How many of the steps inside a call can be taken next.
StepsEnabled ==
    (IF ENABLED OneOfExecute THEN 1 ELSE 0)
        + (IF ENABLED NothingExecute THEN 1 ELSE 0)
        + (IF ENABLED TransitionToLeave THEN 1 ELSE 0)
        + (IF ENABLED TransitionToMove THEN 1 ELSE 0)
        + (IF ENABLED TransitionToEnter THEN 1 ELSE 0)

\* C16: while a call is in progress no other event is taken and exactly one
\* step can follow, and the machine a call returns with is a function of the
\* machine it started from and of its event; so two machines built alike and
\* fed the same events agree after every call.
C16_DispatchIsDeterministic ==
    /\ pc # "idle"
         => /\ \A e \in EventValues : ~ENABLED Handle(e) /\ ~ENABLED HandleRejected(e)
            /\ StepsEnabled = 1
    /\ Returned => Machine = HandleResult(pre, event)

\* A call that moved the door and changed its data has returned.
C16_Witness ==
    /\ Returned
    /\ Machine # pre
    /\ Machine = HandleResult(pre, event)
    /\ states # pre.states

\* The action type the Door's declarations give a state and an event type: an
\* On entry, LockedState's own handle(const UnlockEvent&), or the default.
DoorActionType(State, E) ==
    CASE State = "ClosedState" /\ E = "LockEvent" -> TransitionTo("LockedState")
      [] State = "ClosedState" /\ E = "OpenEvent" -> TransitionTo("OpenState")
      [] State = "OpenState" /\ E = "CloseEvent" -> TransitionTo("ClosedState")
      [] State = "LockedState" /\ E = "UnlockEvent" ->
            [kind |-> "OneOf", Actions |-> <<TransitionTo("ClosedState"), Nothing>>]
      [] OTHER -> Nothing

\* The On entry for E when the state has one, the state's default otherwise.
OnOrDefault(State, E) ==
    CASE State = "ClosedState" /\ E = "LockEvent" -> TransitionTo("LockedState")
      [] State = "ClosedState" /\ E = "OpenEvent" -> TransitionTo("OpenState")
      [] State = "OpenState" /\ E = "CloseEvent" -> TransitionTo("ClosedState")
      [] OTHER -> Nothing

\* C17 as stated: ResolveAction answers with the state's On<E, A> override if
\* there is one and with the state's default otherwise.
C17_AsStated ==
    resolved.state # "none" => resolved.action = OnOrDefault(resolved.state, resolved.event)

\* C17 amended: ResolveAction answers with the type of the action handle()
\* obtains from the state's handler for the event (the On entry, else the
\* return type of a handle overload the state declares itself, else the
\* default), and asking changes nothing of the machine or of a call.
C17_ResolveActionMatchesHandle ==
    /\ [](/\ outcome \in {"running", "returned"}
               => ActionTypeOf(returned) = ResolveAction(statePtr, event.type)
          /\ resolved.state # "none"
               => resolved.action = DoorActionType(resolved.state, resolved.event))
    /\ [][resolved' # resolved
            => UNCHANGED <<stringVars, lockedBy, events, userHooks, states, currentState, pc, event,
                           statePtr, action, returned, pre, trace, outcome,
                           streak>>]_vars

\* ResolveAction was asked about LockedState and UnlockEvent while the door,
\* used before, stood Open.
C17_Witness ==
    /\ resolved.state = "LockedState"
    /\ resolved.event = "UnlockEvent"
    /\ resolved.action.kind = "OneOf"
    /\ currentState = "OpenState"
    /\ outcome = "returned"

\* C18: a hook runs only for the state and the exact event type it is
\* declared for (Locked.onEnter for LockEvent, Closed.onEnter for CloseEvent,
\* no onLeave at all), and a transition without a hook still ends with its
\* target active.
C18_HooksOnlyForTheirEvent ==
    /\ \A i \in DOMAIN trace :
           trace[i].hook
               => /\ trace[i].step = "enter"
                  /\ \/ trace[i].state = "LockedState" /\ trace[i].event.type = "LockEvent"
                     \/ trace[i].state = "ClosedState" /\ trace[i].event.type = "CloseEvent"
    /\ (Returned /\ action.kind = "TransitionTo")
           => /\ currentState = action.TargetState
              /\ Len(trace) = 3
              /\ trace[3].hook <=> \/ currentState = "LockedState"
                                   \/ currentState = "ClosedState"
                                        /\ event.type = "CloseEvent"

\* Closed was entered from Locked by an UnlockEvent: no hook ran.
C18_Witness ==
    /\ Returned
    /\ action.kind = "TransitionTo"
    /\ event.type = "UnlockEvent"
    /\ currentState = "ClosedState"
    /\ \A i \in DOMAIN trace : ~trace[i].hook

\* C19: while Locked is active every event but UnlockEvent resolves to Nothing:
\* the door stays Locked and a LockEvent does not change the key.
C19_LockedIgnoresOtherEvents ==
    (outcome \in {"running", "returned"} /\ statePtr = "LockedState"
     /\ event.type # "UnlockEvent")
        => /\ returned = Nothing
           /\ currentState = "LockedState"
           /\ states = pre.states
           /\ trace = <<>>

\* A LockEvent with another key was handled while Locked.
C19_Witness ==
    /\ Returned
    /\ statePtr = "LockedState"
    /\ event.type = "LockEvent"
    /\ event.arg # states.LockedState.key
    /\ currentState = "LockedState"

\* How often the tracker was moved in the call.
TrackerMoves == Len(SelectSeq(trace, LAMBDA s : s.step = "transitionTo"))

\* C20: one handle() call moves the tracker at most once, the value an onEnter
\* returns being dropped: CloseEvent handled while Open ends with Closed
\* active, also when Closed.onEnter returned TransitionTo<LockedState>.
C20_HookResultDropped ==
    /\ TrackerMoves <= 1
    /\ (Returned /\ pre.currentState = "OpenState" /\ event.type = "CloseEvent")
           => currentState = "ClosedState"

\* With autoLock set, Closed.onEnter(CloseEvent) returned the transition to
\* Locked and the door is Closed.
C20_Witness ==
    /\ Returned
    /\ pre.currentState = "OpenState"
    /\ event = CloseEvent
    /\ states.ClosedState.autoLock
    /\ trace[3].hook
    /\ FinalAction(OnEnterResult("ClosedState", states.ClosedState, event))
           = TransitionTo("LockedState")
    /\ currentState = "ClosedState"

\* The four changes of the active state the Door's handlers allow, with the
\* event that causes each; key is the key LockedState holds when it is left.
DoorEdge(from, to, e, key) ==
    \/ from = "ClosedState" /\ to = "OpenState" /\ e.type = "OpenEvent"
    \/ from = "OpenState" /\ to = "ClosedState" /\ e.type = "CloseEvent"
    \/ from = "ClosedState" /\ to = "LockedState" /\ e.type = "LockEvent"
    \/ from = "LockedState" /\ to = "ClosedState" /\ e.type = "UnlockEvent"
          /\ e.arg = key

\* C21: every change of the active state is Closed->Open on OpenEvent,
\* Open->Closed on CloseEvent, Closed->Locked on LockEvent or Locked->Closed on
\* an UnlockEvent carrying the stored key, both step by step and from the
\* call of handle() to its return; so Open never leads to Locked and Locked
\* never leads to Open.
C21_OnlyDoorEdges ==
    /\ [](Returned /\ currentState # pre.currentState
            => DoorEdge(pre.currentState, currentState, event,
                        pre.states.LockedState.key))
    /\ [][currentState' # currentState
            => DoorEdge(currentState, currentState', event,
                        states.LockedState.key)]_vars

\* A door that was locked by a LockEvent has just been unlocked.
C21_Witness ==
    /\ Returned
    /\ lockedBy.type = "LockEvent"
    /\ DoorEdge("LockedState", currentState, event, lockedBy.arg)
    /\ pre.currentState = "LockedState"
    /\ Len(trace) = 3

\* C22: between handle() calls, whenever Locked is active its key is the
\* newKey of the LockEvent that last moved the tracker to Locked (inside
\* TransitionTo::execute the key is the older one only from the move of the
\* tracker to the onEnter that follows it); so what an UnlockEvent does is
\* decided by that LockEvent's newKey and never by the key LockedState was
\* constructed with.
C22_KeyIsLastLockKey ==
    /\ currentState = "LockedState"
          => /\ lockedBy.type = "LockEvent"
             /\ states.LockedState.key # lockedBy.arg
                   => (pc = "enter" /\ action = TransitionTo("LockedState")
                       /\ event = lockedBy)
    /\ (Returned /\ event.type = "UnlockEvent")
          => currentState =
                IF pre.currentState = "LockedState" /\ event.arg = lockedBy.arg
                THEN "ClosedState"
                ELSE pre.currentState

\* An unlock was declined by a door locked with a key other than the one
\* the unlock carries.
C22_Witness ==
    /\ Returned
    /\ event.type = "UnlockEvent"
    /\ pre.currentState = "LockedState"
    /\ currentState = "LockedState"
    /\ lockedBy.type = "LockEvent"
    /\ states.LockedState.key = lockedBy.arg
    /\ event.arg # lockedBy.arg

\* C23: s.changeLength<L>(c) has length L and ends with '\0' after its L
\* characters; its first min(n, L) characters are those of s (n = s.length())
\* and the other L - min(n, L) are all c: cut when n > L, padded when n < L,
\* all fill when s is empty.
C23_ChangeLengthCutsOrPads ==
    /\ testResize
    /\ res # <<>>
          => LET n == length(chars)
                 L == TargetLen
                 kept == IF n < L THEN n ELSE L
             IN  /\ Len(res) = L + 1
                 /\ length(res) = L
                 /\ res[L + 1] = NUL
                 /\ \A i \in 1..kept : res[i] = chars[i]
                 /\ \A i \in (kept + 1)..L : res[i] = fill

\* A string that is neither empty nor long enough was padded with a fill
\* other than '\0'.
C23_Witness ==
    /\ res # <<>>
    /\ 0 < length(chars)
    /\ length(chars) < TargetLen
    /\ fill # NUL
    /\ chars[Len(chars)] = NUL
    /\ res[TargetLen] = fill

====
